---- MODULE Spec2Model ----
(***************************************************************************)
(* sys2txt live mode: segment_and_transcribe_live (src/sys2txt/__main__.py) *)
(* run against the ffmpeg segment muxer it launches.  The capture process   *)
(* writes seg_%05d.wav files into a temporary directory while the loop      *)
(* lists the directory, transcribes the files it has not processed yet and  *)
(* prints one line per file.                                                *)
(*                                                                          *)
(* File names are strings, modelled as sequences of ASCII codes, so that    *)
(* sorted(), startswith(), endswith() and int() act on what the code gives  *)
(* them.                                                                    *)
(***************************************************************************)
EXTENDS Integers, Sequences, FiniteSets, TLC

\* ------------------------------------------------------------------ bounds

\* Number of segment files the capture process creates in a behaviour.
MaxSeg == 3

\* Sizes in bytes a segment file is seen with after a write of the capture
\* process; a file is empty when it is opened.
WriteSizes == {63, 64}

\* ------------------------------------------------------- program constants

\* os.path.getsize(full) < 64
MinBytes == 64

\* seg_%05d.wav
PadWidth == 5

\* --segment-seconds values a session is started with: the default.
SegmentSecondsChoices == {8}

\* Return codes of the capture process.
ExitCodes == {0, 1}

\* Values of the engine argument a session is started with: the function
\* takes any string (main restricts --engine to auto, faster, whisper).
EngineChoices == {"auto", "faster", "bogus"}

\* Which of the packages faster_whisper and whisper can be imported: whisper
\* alone, so that "auto" falls back to it and "faster" is missing.
InstalledChoices == {{"whisper"}}

\* --------------------------------------------------------------- strings

\* "seg_"
SegPrefix == <<115, 101, 103, 95>>

\* ".wav"
SegSuffix == <<46, 119, 97, 118>>

RECURSIVE Digits(_)
\* The decimal digits of n >= 0, as ASCII codes: what %d prints.
Digits(n) == IF n < 10 THEN <<48 + n>> ELSE Digits(n \div 10) \o <<48 + (n % 10)>>

RECURSIVE ZeroPad(_, _)
\* %0<w>d: zeros on the left up to width w, never a truncation.
ZeroPad(d, w) == IF Len(d) >= w THEN d ELSE ZeroPad(<<48>> \o d, w)

\* The name the segment muxer gives segment number i under seg_%05d.wav.
SegName(i) == SegPrefix \o ZeroPad(Digits(i), PadWidth) \o SegSuffix

\* Python's < on str: the first differing character decides, a proper prefix
\* is smaller.
StrLess(a, b) ==
    \/ /\ Len(a) < Len(b)
       /\ \A k \in 1..Len(a) : a[k] = b[k]
    \/ \E k \in 1..(IF Len(a) < Len(b) THEN Len(a) ELSE Len(b)) :
          /\ a[k] < b[k]
          /\ \A j \in 1..(k - 1) : a[j] = b[j]

RECURSIVE Sorted(_)
\* sorted(S) for a set S of distinct strings.
Sorted(S) ==
    IF S = {} THEN << >>
    ELSE LET m == CHOOSE x \in S : \A y \in S \ {x} : StrLess(x, y)
         IN  <<m>> \o Sorted(S \ {m})

StartsWith(s, p) == Len(s) >= Len(p) /\ SubSeq(s, 1, Len(p)) = p

EndsWith(s, p) == Len(s) >= Len(p) /\ SubSeq(s, Len(s) - Len(p) + 1, Len(s)) = p

RECURSIVE LastPos(_, _, _)
\* The largest k <= n with s[k] = c, or 0.
LastPos(s, c, n) == IF n = 0 THEN 0 ELSE IF s[n] = c THEN n ELSE LastPos(s, c, n - 1)

RECURSIVE ParseInt(_)
\* int() of a string of decimal digits.
ParseInt(d) ==
    IF Len(d) = 0 THEN 0
    ELSE 10 * ParseInt(SubSeq(d, 1, Len(d) - 1)) + (d[Len(d)] - 48)

\* int(os.path.splitext(f)[0].split("_")[-1])
IndexOf(name) ==
    LET dot  == LastPos(name, 46, Len(name))
        stem == IF dot > 1 THEN SubSeq(name, 1, dot - 1) ELSE name
        us   == LastPos(stem, 95, Len(stem))
    IN  ParseInt(SubSeq(stem, us + 1, Len(stem)))

\* ----------------------------------------------------------------- state

VARIABLES
    pc,           \* where segment_and_transcribe_live is
    outcome,      \* how it ended: "none" while running
    timestamps,   \* the timestamps argument
    outputPath,   \* whether output_path is set
    segSeconds,   \* the segment_seconds argument
    engine,       \* the engine argument
    installed,    \* the importable engine packages
    dirExists,    \* the temporary directory exists
    dir,          \* file name -> size in bytes, the directory's content
    nextIdx,      \* number of the next segment the capture process opens
    writing,      \* name of the file the capture process has open, or << >>
    procState,    \* "none", "running", "exited"
    returncode,   \* the capture process's exit status, -1 while it has none
    signalled,    \* SIGINT has been sent to the capture process
    processed,    \* the set processed
    queue,        \* what is left of new_files in the running for loop
    f,            \* the loop variable f while its body runs, or << >>
    dispatched,   \* calls of transcribe_file: [name, phase, size, growing]
    failed,       \* names whose transcribe_file call raised
    stdout,       \* lines printed: [name, window]
    transcript,   \* lines appended to output_path
    events,       \* "signal", "reaped", "exit_seen", "drain", "rmdir", in order
    intr,         \* the first KeyboardInterrupt: where, and the files closed by then
    changed,      \* history: the directory changed since it was last listed
    stale,        \* history: the last listing saw the directory as the one
                  \* before did, and the directory has not changed since
    skipped       \* history: the names a for loop skipped as too small

vars == <<pc, outcome, timestamps, outputPath, segSeconds, engine, installed,
          dirExists, dir,
          nextIdx, writing, procState, returncode, signalled, processed, queue,
          f, dispatched, failed, stdout, transcript, events, intr, changed,
          stale, skipped>>

cfgVars == <<timestamps, outputPath, segSeconds, engine, installed>>
capVars == <<dir, nextIdx, writing, procState, returncode>>
logVars == <<dispatched, failed, stdout, transcript>>
histVars == <<changed, stale, skipped>>

NoFile == << >>
NoWindow == << >>
NoIntr == [at |-> "none", alive |-> FALSE, closed |-> {}]

\* ------------------------------------------------------------- the engine

\* transcribe_file: "auto" becomes "faster" if faster_whisper can be imported
\* and "whisper" otherwise.
ResolveEngine(e, inst) ==
    IF e = "auto" THEN (IF "faster" \in inst THEN "faster" ELSE "whisper") ELSE e

\* What transcribe_file raises whatever the file is: ValueError for an unknown
\* engine, RuntimeError when the engine's package is not installed; "none"
\* when the engine can run.
EngineFault(e, inst) ==
    LET r == ResolveEngine(e, inst)
    IN  IF r \notin {"faster", "whisper"} THEN "unknown_engine"
        ELSE IF r \notin inst THEN "engine_missing"
        ELSE "none"

\* ------------------------------------------------------------ the listing

\* sorted(f for f in os.listdir(tmp) if f.startswith("seg_") and f.endswith(".wav"))
ListSegments(d) ==
    Sorted({n \in DOMAIN d : StartsWith(n, SegPrefix) /\ EndsWith(n, SegSuffix)})

\* NewFiles without the "not in processed" filter.
NewFilesUnfiltered(files, done) == files

\* [f for f in files if f not in processed]
NewFiles(files, done) == SelectSeq(files, LAMBDA n : n \notin done)

\* os.path.getsize(full) < 64
TooSmall(d, name) == d[name] < MinBytes

\* The [start-end] window of the segment named name: idx * segment_seconds
\* and start + segment_seconds.
Window(name, secs) ==
    LET idx   == IndexOf(name)
        start == idx * secs
    IN  <<start, start + secs>>

\* The line of the poll loop: prefix + text.strip() with timestamps, else
\* text.strip().
PollLine(name, ts, secs) ==
    [name |-> name, window |-> IF ts THEN Window(name, secs) ELSE NoWindow]

\* The line of the final scan: text.strip().
DrainLine(name, ts, secs) == [name |-> name, window |-> NoWindow]

\* The files the capture process has closed: all but the one it has open.
Closed == IF procState = "running" THEN DOMAIN dir \ {writing} ELSE DOMAIN dir

\* Leaving the with block: TemporaryDirectory removes the directory.  dir
\* keeps what the directory held when it was removed.
Cleanup(how) ==
    /\ pc' = "done"
    /\ outcome' = how
    /\ dirExists' = FALSE
    /\ events' = Append(events, "rmdir")

\* ------------------------------------------------------------------ Init

\* segment_and_transcribe_live has been called with these arguments; nothing
\* has been created yet.  The capture process numbers its first segment 0.
InitAt(first) ==
    /\ pc = "start"
    /\ outcome = "none"
    /\ timestamps \in BOOLEAN
    /\ outputPath \in BOOLEAN
    /\ segSeconds \in SegmentSecondsChoices
    /\ engine \in EngineChoices
    /\ installed \in InstalledChoices
    /\ dirExists = FALSE
    /\ dir = [n \in {} |-> 0]
    /\ nextIdx = first
    /\ writing = NoFile
    /\ procState = "none"
    /\ returncode = -1
    /\ signalled = FALSE
    /\ processed = {}
    /\ queue = << >>
    /\ f = NoFile
    /\ dispatched = << >>
    /\ failed = {}
    /\ stdout = << >>
    /\ transcript = << >>
    /\ events = << >>
    /\ intr = NoIntr
    /\ changed = FALSE
    /\ stale = FALSE
    /\ skipped = {}

Init == InitAt(0)

\* ------------------------------------------------------ the capture process

\* The segment muxer closes its current file, if any, and opens the next one.
CapRollover ==
    /\ procState = "running"
    /\ dirExists
    /\ Cardinality(DOMAIN dir) < MaxSeg
    /\ dir' = (SegName(nextIdx) :> 0) @@ dir
    /\ writing' = SegName(nextIdx)
    /\ nextIdx' = nextIdx + 1
    /\ changed' = TRUE
    /\ stale' = FALSE
    /\ UNCHANGED <<skipped, pc, outcome, cfgVars, dirExists, procState, returncode,
                   signalled, processed, queue, f, logVars, events, intr>>

\* The capture process writes to the file it has open.
CapWrite ==
    /\ procState = "running"
    /\ dirExists
    /\ writing /= NoFile
    /\ \E s \in WriteSizes :
          /\ s > dir[writing]
          /\ dir' = [dir EXCEPT ![writing] = s]
    /\ changed' = TRUE
    /\ stale' = FALSE
    /\ UNCHANGED <<skipped, pc, outcome, cfgVars, dirExists, nextIdx, writing, procState,
                   returncode, signalled, processed, queue, f, logVars, events,
                   intr>>

\* The capture process exits: on its own, on an error, or after SIGINT.
CapExit ==
    /\ procState = "running"
    /\ procState' = "exited"
    /\ \E rc \in ExitCodes : returncode' = rc
    /\ UNCHANGED <<histVars, pc, outcome, cfgVars, dirExists, dir, nextIdx, writing,
                   signalled, processed, queue, f, logVars, events, intr>>

\* ------------------------------------------------------------------ set-up

\* which("ffmpeg") finds nothing and raises RuntimeError.
WhichMissing ==
    /\ pc = "start"
    /\ pc' = "done"
    /\ outcome' = "dependency_missing"
    /\ UNCHANGED <<histVars, cfgVars, dirExists, capVars, signalled, processed, queue, f,
                   logVars, events, intr>>

\* The temporary directory is created, the capture process launched and
\* processed set to set().
Start ==
    /\ pc = "start"
    /\ pc' = "scan"
    /\ dirExists' = TRUE
    /\ procState' = "running"
    /\ processed' = {}
    /\ UNCHANGED <<histVars, outcome, cfgVars, dir, nextIdx, writing, returncode,
                   signalled, queue, f, logVars, events, intr>>

\* --------------------------------------------------------------- poll loop

\* files = sorted(...); new_files = [f for f in files if f not in processed]
ScanDir ==
    /\ pc = "scan"
    /\ queue' = NewFiles(ListSegments(dir), processed)
    /\ pc' = "for"
    /\ stale' = ~changed
    /\ changed' = FALSE
    /\ UNCHANGED <<skipped, outcome, cfgVars, dirExists, capVars, signalled, processed,
                   f, logVars, events, intr>>

\* for f in new_files: the file is smaller than 64 bytes: continue.
ForSkip ==
    /\ pc = "for"
    /\ queue /= << >>
    /\ TooSmall(dir, Head(queue))
    /\ queue' = Tail(queue)
    /\ skipped' = skipped \cup {Head(queue)}
    /\ UNCHANGED <<changed, stale, pc, outcome, cfgVars, dirExists, capVars, signalled,
                   processed, f, logVars, events, intr>>

\* ForDispatch without processed.add(f).
ForDispatchNoAdd ==
    /\ pc = "for"
    /\ queue /= << >>
    /\ ~TooSmall(dir, Head(queue))
    /\ f' = Head(queue)
    /\ queue' = Tail(queue)
    /\ dispatched' = Append(dispatched,
                        [name |-> Head(queue), phase |-> "poll",
                         size |-> dir[Head(queue)],
                         growing |-> procState = "running" /\ writing = Head(queue)])
    /\ pc' = "transcribe"
    /\ UNCHANGED <<histVars, outcome, cfgVars, dirExists, capVars, signalled,
                   processed, failed, stdout, transcript, events, intr>>

\* for f in new_files: processed.add(f) and transcribe_file(full, ...) is called.
ForDispatch ==
    /\ pc = "for"
    /\ queue /= << >>
    /\ ~TooSmall(dir, Head(queue))
    /\ f' = Head(queue)
    /\ queue' = Tail(queue)
    /\ processed' = processed \cup {Head(queue)}
    /\ dispatched' = Append(dispatched,
                        [name |-> Head(queue), phase |-> "poll",
                         size |-> dir[Head(queue)],
                         growing |-> procState = "running" /\ writing = Head(queue)])
    /\ pc' = "transcribe"
    /\ UNCHANGED <<histVars, outcome, cfgVars, dirExists, capVars, signalled, failed,
                   stdout, transcript, events, intr>>

\* The for loop is over: ret = proc.poll() is next.
ForDone ==
    /\ pc = "for"
    /\ queue = << >>
    /\ pc' = "poll"
    /\ UNCHANGED <<histVars, outcome, cfgVars, dirExists, capVars, signalled, processed,
                   queue, f, logVars, events, intr>>

\* TranscribeReturn going on to the next file without the append to
\* output_path.
TranscribeReturnNoAppend ==
    /\ pc = "transcribe"
    /\ EngineFault(engine, installed) = "none"
    /\ stdout' = Append(stdout, PollLine(f, timestamps, segSeconds))
    /\ pc' = "for"
    /\ f' = NoFile
    /\ UNCHANGED <<histVars, outcome, cfgVars, dirExists, capVars, signalled, processed,
                   queue, dispatched, failed, transcript, events, intr>>

\* transcribe_file returns; the line is built and printed.
TranscribeReturn ==
    /\ pc = "transcribe"
    /\ EngineFault(engine, installed) = "none"
    /\ stdout' = Append(stdout, PollLine(f, timestamps, segSeconds))
    /\ pc' = IF outputPath THEN "append" ELSE "for"
    /\ f' = IF outputPath THEN f ELSE NoFile
    /\ UNCHANGED <<histVars, outcome, cfgVars, dirExists, capVars, signalled, processed,
                   queue, dispatched, failed, transcript, events, intr>>

\* transcribe_file raises (engine missing, unknown engine, decoding error):
\* nothing in the function catches it, the with block is left.
TranscribeRaise ==
    /\ pc = "transcribe"
    /\ failed' = failed \cup {f}
    /\ f' = NoFile
    /\ Cleanup("error")
    /\ UNCHANGED <<histVars, cfgVars, capVars, signalled, processed, queue, dispatched,
                   stdout, transcript, intr>>

\* with open(output_path, "a") as w: w.write(line + "\n")
AppendLine ==
    /\ pc = "append"
    /\ transcript' = Append(transcript, PollLine(f, timestamps, segSeconds))
    /\ f' = NoFile
    /\ pc' = "for"
    /\ UNCHANGED <<histVars, outcome, cfgVars, dirExists, capVars, signalled, processed,
                   queue, dispatched, failed, stdout, events, intr>>

\* open(output_path, "a") raises OSError: the with block is left.
AppendRaise ==
    /\ pc = "append"
    /\ f' = NoFile
    /\ Cleanup("error")
    /\ UNCHANGED <<histVars, cfgVars, capVars, signalled, processed, queue, logVars, intr>>

\* ret = proc.poll() is None: time.sleep(0.3).
PollRunning ==
    /\ pc = "poll"
    /\ procState = "running"
    /\ pc' = "sleep"
    /\ UNCHANGED <<histVars, outcome, cfgVars, dirExists, capVars, signalled, processed,
                   queue, f, logVars, events, intr>>

\* time.sleep(0.3) returns: the next cycle of while True.
Sleep ==
    /\ pc = "sleep"
    /\ pc' = "scan"
    /\ UNCHANGED <<histVars, outcome, cfgVars, dirExists, capVars, signalled, processed,
                   queue, f, logVars, events, intr>>

\* PollExited breaking out of the loop without the final scan.
PollExitedNoDrain ==
    /\ pc = "poll"
    /\ procState = "exited"
    /\ events' = Append(events, "exit_seen")
    /\ Cleanup("ended")
    /\ UNCHANGED <<histVars, cfgVars, capVars, signalled, processed, queue, f, logVars,
                   intr>>

\* ret = proc.poll() is not None: the final scan is next.
PollExited ==
    /\ pc = "poll"
    /\ procState = "exited"
    /\ pc' = "drainscan"
    /\ events' = Append(events, "exit_seen")
    /\ UNCHANGED <<histVars, outcome, cfgVars, dirExists, capVars, signalled, processed,
                   queue, f, logVars, intr>>

\* -------------------------------------------------------------- final scan

\* flush remaining unprocessed files: the directory is listed again.
DrainScan ==
    /\ pc = "drainscan"
    /\ queue' = NewFiles(ListSegments(dir), processed)
    /\ events' = Append(events, "drain")
    /\ pc' = "drainfor"
    /\ stale' = ~changed
    /\ changed' = FALSE
    /\ UNCHANGED <<skipped, outcome, cfgVars, dirExists, capVars, signalled, processed,
                   f, logVars, intr>>

\* for f in new_files: the file is smaller than 64 bytes: continue.
DrainSkip ==
    /\ pc = "drainfor"
    /\ queue /= << >>
    /\ TooSmall(dir, Head(queue))
    /\ queue' = Tail(queue)
    /\ skipped' = skipped \cup {Head(queue)}
    /\ UNCHANGED <<changed, stale, pc, outcome, cfgVars, dirExists, capVars, signalled,
                   processed, f, logVars, events, intr>>

\* for f in new_files: processed.add(f) and transcribe_file(full, ...) is called.
DrainDispatch ==
    /\ pc = "drainfor"
    /\ queue /= << >>
    /\ ~TooSmall(dir, Head(queue))
    /\ f' = Head(queue)
    /\ queue' = Tail(queue)
    /\ processed' = processed \cup {Head(queue)}
    /\ dispatched' = Append(dispatched,
                        [name |-> Head(queue), phase |-> "drain",
                         size |-> dir[Head(queue)],
                         growing |-> procState = "running" /\ writing = Head(queue)])
    /\ pc' = "draintranscribe"
    /\ UNCHANGED <<histVars, outcome, cfgVars, dirExists, capVars, signalled, failed,
                   stdout, transcript, events, intr>>

\* transcribe_file returns; text.strip() is printed.
DrainTranscribeReturn ==
    /\ pc = "draintranscribe"
    /\ EngineFault(engine, installed) = "none"
    /\ stdout' = Append(stdout, DrainLine(f, timestamps, segSeconds))
    /\ pc' = IF outputPath THEN "drainappend" ELSE "drainfor"
    /\ f' = IF outputPath THEN f ELSE NoFile
    /\ UNCHANGED <<histVars, outcome, cfgVars, dirExists, capVars, signalled, processed,
                   queue, dispatched, failed, transcript, events, intr>>

\* transcribe_file raises: the with block is left.
DrainTranscribeRaise ==
    /\ pc = "draintranscribe"
    /\ failed' = failed \cup {f}
    /\ f' = NoFile
    /\ Cleanup("error")
    /\ UNCHANGED <<histVars, cfgVars, capVars, signalled, processed, queue, dispatched,
                   stdout, transcript, intr>>

\* with open(output_path, "a") as w: w.write(text.strip() + "\n")
DrainAppendLine ==
    /\ pc = "drainappend"
    /\ transcript' = Append(transcript, DrainLine(f, timestamps, segSeconds))
    /\ f' = NoFile
    /\ pc' = "drainfor"
    /\ UNCHANGED <<histVars, outcome, cfgVars, dirExists, capVars, signalled, processed,
                   queue, dispatched, failed, stdout, events, intr>>

\* open(output_path, "a") raises OSError: the with block is left.
DrainAppendRaise ==
    /\ pc = "drainappend"
    /\ f' = NoFile
    /\ Cleanup("error")
    /\ UNCHANGED <<histVars, cfgVars, capVars, signalled, processed, queue, logVars, intr>>

\* The for loop of the final scan is over: break, and the with block is left.
DrainDone ==
    /\ pc = "drainfor"
    /\ queue = << >>
    /\ Cleanup("ended")
    /\ UNCHANGED <<histVars, cfgVars, capVars, signalled, processed, queue, f, logVars,
                   intr>>

\* ------------------------------------------------------- KeyboardInterrupt

\* Where the try block can be when KeyboardInterrupt is raised.
InTry ==
    pc \in {"scan", "for", "transcribe", "append", "poll", "sleep", "drainscan",
            "drainfor", "draintranscribe", "drainappend"}

\* except KeyboardInterrupt: proc.send_signal(signal.SIGINT), then proc.wait()
\* is entered.  SIGINT reaches the capture process only if it is still running.
KeyboardInterrupt ==
    /\ InTry
    /\ intr' = [at |-> pc, alive |-> procState = "running", closed |-> Closed]
    /\ signalled' = (procState = "running")
    /\ events' = Append(events, "signal")
    /\ f' = NoFile
    /\ queue' = << >>
    /\ pc' = "wait"
    /\ UNCHANGED <<histVars, outcome, cfgVars, dirExists, capVars, processed, logVars>>

\* proc.wait() returns once the capture process has exited; "Stopped live
\* capture." is printed and the with block is left.
WaitReturn ==
    /\ pc = "wait"
    /\ procState = "exited"
    /\ pc' = "done"
    /\ outcome' = "cancelled"
    /\ dirExists' = FALSE
    /\ events' = events \o <<"reaped", "rmdir">>
    /\ UNCHANGED <<histVars, cfgVars, capVars, signalled, processed, queue, f, logVars,
                   intr>>

\* A second KeyboardInterrupt inside the handler's proc.wait(): it leaves the
\* function through the with block.
InterruptInWait ==
    /\ pc = "wait"
    /\ Cleanup("interrupted")
    /\ UNCHANGED <<histVars, cfgVars, capVars, signalled, processed, queue, f, logVars,
                   intr>>

\* ------------------------------------------------------------------- Next

Next ==
    \/ CapRollover
    \/ CapWrite
    \/ CapExit
    \/ WhichMissing
    \/ Start
    \/ ScanDir
    \/ ForSkip
    \/ ForDispatch
    \/ ForDone
    \/ TranscribeReturn
    \/ TranscribeRaise
    \/ AppendLine
    \/ AppendRaise
    \/ PollRunning
    \/ Sleep
    \/ PollExited
    \/ DrainScan
    \/ DrainSkip
    \/ DrainDispatch
    \/ DrainTranscribeReturn
    \/ DrainTranscribeRaise
    \/ DrainAppendLine
    \/ DrainAppendRaise
    \/ DrainDone
    \/ KeyboardInterrupt
    \/ WaitReturn
    \/ InterruptInWait

Spec == Init /\ [][Next]_vars

\* The steps of segment_and_transcribe_live itself: the function is one
\* sequential thread, which takes its next step whenever it has one
\* (time.sleep returns, a blocking call returns or raises, proc.wait() returns
\* once the capture process has exited).
Program ==
    \/ WhichMissing
    \/ Start
    \/ ScanDir
    \/ ForSkip
    \/ ForDispatch
    \/ ForDone
    \/ TranscribeReturn
    \/ TranscribeRaise
    \/ AppendLine
    \/ AppendRaise
    \/ PollRunning
    \/ Sleep
    \/ PollExited
    \/ DrainScan
    \/ DrainSkip
    \/ DrainDispatch
    \/ DrainTranscribeReturn
    \/ DrainTranscribeRaise
    \/ DrainAppendLine
    \/ DrainAppendRaise
    \/ DrainDone
    \/ WaitReturn

\* The sessions started with the defaults of the live command (no
\* --timestamps, --segment-seconds 8, --engine auto) and a usable engine,
\* with and without --output: timestamps and segment_seconds only shape the
\* text of a line, and a call of transcribe_file may raise with any engine.
InitFair ==
    /\ InitAt(0)
    /\ ~timestamps
    /\ segSeconds = 8
    /\ engine = "auto"
    /\ installed = {"whisper"}

SpecFair == InitFair /\ [][Next]_vars /\ WF_vars(Program)

RECURSIVE Pow10(_)
Pow10(k) == IF k = 0 THEN 1 ELSE 10 * Pow10(k - 1)

\* The last segment number that fits the pad width of seg_%05d.wav.
LastPadded == Pow10(PadWidth) - 1

\* A session whose capture process is about to open segment LastPadded - 1:
\* that of a long run, the earlier segments being left out (each is in
\* processed, and NewFiles drops it from every listing).
InitLong == InitAt(LastPadded - 1)

SpecLong == InitLong /\ [][Next]_vars

\* ---------------------------------------------------------------- claims

\* The names transcribe_file has been called with, and those printed.
DispatchedNames == {dispatched[k].name : k \in DOMAIN dispatched}
PrintedNames == {stdout[k].name : k \in DOMAIN stdout}

\* C1: over all poll cycles and the final scan of a session, no segment file
\* name is passed to transcribe_file twice.
DispatchedAtMostOnce ==
    \A i, j \in DOMAIN dispatched :
        i /= j => dispatched[i].name /= dispatched[j].name

\* C1 witness: the session has ended after its polls dispatched a segment in
\* one cycle and the final scan dispatched another.
DispatchedAtMostOnceWitness ==
    /\ pc = "done"
    /\ outcome = "ended"
    /\ \E i, j \in DOMAIN dispatched :
          dispatched[i].phase = "poll" /\ dispatched[j].phase = "drain"

\* C2: segments are passed to transcribe_file in non-decreasing order of
\* their sequence index, over the whole session.
DispatchOrderNonDecreasing ==
    \A i, j \in DOMAIN dispatched :
        i < j => IndexOf(dispatched[i].name) <= IndexOf(dispatched[j].name)

\* C3: while the capture process is alive, transcribe_file never reads the
\* file the capture process is still writing.
NeverTranscribesOpenFile ==
    ~(pc = "transcribe" /\ procState = "running" /\ writing = f)

\* C4: a poll never dispatches a file below the size threshold, and the final
\* scan dispatches every file not yet processed unless it is empty: after a
\* session that ended through its final scan, every non-empty file has been
\* processed.
ThresholdOnlyWhilePolling ==
    /\ \A k \in DOMAIN dispatched :
          dispatched[k].phase = "poll" => dispatched[k].size >= MinBytes
    /\ (pc = "done" /\ outcome = "ended") =>
          \A n \in DOMAIN dir : dir[n] > 0 => n \in processed

\* C5: a failure of transcribe_file for one segment does not end the session,
\* and the segment gets a line (its error marker) in the output.
FailureIsIsolated ==
    failed /= {} => (outcome /= "error" /\ failed \subseteq PrintedNames)

\* C6: after an interrupt in the Capturing state, the ended session has
\* printed every segment the capture process had closed before the interrupt.
\* Stated for the closed files of at least MinBytes only, those any poll takes.
InterruptLosesNoClosedSegment ==
    (pc = "done" /\ intr.alive
        /\ intr.at \in {"scan", "for", "transcribe", "append", "poll", "sleep"}) =>
        \A n \in intr.closed : dir[n] >= MinBytes => n \in PrintedNames

\* C7: however the function ends, the directory is gone and the capture
\* process is no longer running; the directory is never removed while the
\* capture process runs.
CleanupAfterCaptureExit ==
    /\ ~dirExists => procState /= "running"
    /\ (pc = "done" /\ outcome /= "dependency_missing") =>
          (~dirExists /\ procState = "exited")

\* C8: when the capture process exits on its own and no transcription fails,
\* every segment file it produced has been dispatched by the end of the
\* session.  Stated for the non-empty files only.
NoSegmentDropped ==
    (pc = "done" /\ outcome = "ended" /\ failed = {}) =>
        \A n \in DOMAIN dir : dir[n] > 0 => n \in DispatchedNames

\* C9: with timestamps enabled, every printed line, of a poll or of the final
\* scan, carries the window i*S to (i+1)*S of its segment index i.
EveryLineHasWindow ==
    timestamps =>
        \A k \in DOMAIN stdout :
            stdout[k].window = <<IndexOf(stdout[k].name) * segSeconds,
                                 (IndexOf(stdout[k].name) + 1) * segSeconds>>

\* C10: a cancelled session has sent the stop signal, waited for the capture
\* process, run one final scan and removed the directory, in this order.
CancelDrainsBeforeCleanup ==
    (pc = "done" /\ outcome = "cancelled") =>
        \E a, b, c, d \in DOMAIN events :
            /\ a < b /\ b < c /\ c < d
            /\ events[a] = "signal"
            /\ events[b] = "reaped"
            /\ events[c] = "drain"
            /\ events[d] = "rmdir"

\* C11: a session whose capture process exited with a non-zero status ends,
\* after its final scan, in an outcome other than that of a capture process
\* that exited with status 0.
CaptureFailureSurfaces ==
    (pc = "done" /\ outcome = "ended") => returncode = 0

\* C12: when a fatal error is raised (capture binary missing, engine package
\* missing, unknown engine), no directory has been created and no capture
\* process launched.
FatalBeforeResources ==
    (pc = "done"
        /\ \/ outcome = "dependency_missing"
           \/ outcome = "error" /\ failed /= {}
                 /\ EngineFault(engine, installed) /= "none") =>
        (procState = "none" /\ events = << >>)

\* C13 as stated: with a transcript file configured, the lines of the
\* transcript file are the lines written to standard output, outside of the
\* step that prints and appends one line.
TranscriptEqualsStdout ==
    (outputPath /\ pc \notin {"append", "drainappend"}) => transcript = stdout

\* C13, amended: with a transcript file configured, whenever transcribe_file
\* is called the lines of all segments dispatched before are on standard
\* output and in the transcript file, in dispatch order and the same in both;
\* at any other time the transcript holds the printed lines less at most the
\* last one; at most one transcription is in flight.
SinkBeforeNextDispatch ==
    outputPath =>
        /\ pc \in {"transcribe", "draintranscribe"} =>
              /\ transcript = stdout
              /\ Len(stdout) = Len(dispatched) - 1
              /\ \A k \in DOMAIN stdout : stdout[k].name = dispatched[k].name
        /\ Len(stdout) - Len(transcript) \in {0, 1}
        /\ transcript = SubSeq(stdout, 1, Len(transcript))
        /\ Len(dispatched) - Len(stdout) \in {0, 1}

\* C13 witness: transcribe_file is called by the final scan while the
\* transcript file holds the line of a segment a poll dispatched.
SinkBeforeNextDispatchWitness ==
    /\ outputPath
    /\ pc = "draintranscribe"
    /\ Len(transcript) >= 1
    /\ dispatched[1].phase = "poll"

\* C14: a session ends as "ended" only after a poll cycle has seen the capture
\* process's exit and a final scan has run after that; and once the capture
\* process has exited the session reaches "ended", unless a transcribe_file
\* call or the sink raised or the operator interrupted it.
EndsAfterExitSeenAndDrain ==
    /\ [](outcome = "ended" =>
            \E a, b, c \in DOMAIN events :
                /\ a < b /\ b < c
                /\ events[a] = "exit_seen"
                /\ events[b] = "drain"
                /\ events[c] = "rmdir")
    /\ (procState = "exited") ~>
          (outcome = "ended" \/ outcome = "error" \/ intr /= NoIntr)

\* C14 witness: a session has ended through the final scan, which dispatched
\* a file, after the capture process's exit was seen.
EndsAfterExitSeenAndDrainWitness ==
    /\ outcome = "ended"
    /\ procState = "exited"
    /\ events = <<"exit_seen", "drain", "rmdir">>
    /\ \E k \in DOMAIN dispatched : dispatched[k].phase = "drain"

\* The files a listing of the scan just taken leaves ready: new and not below
\* the size threshold.
ReadyList == SelectSeq(queue, LAMBDA n : ~TooSmall(dir, n))

\* C15: a poll whose listing finds the directory as the listing before left
\* it (no file created, no size changed) has an empty ready-list, and while
\* the directory stays so it dispatches nothing and leaves processed, the
\* standard output and the transcript as they are.
PollIdempotent ==
    [][/\ (stale' /\ pc \in {"scan", "drainscan"}) => ReadyList' = << >>
       /\ stale => /\ dispatched' = dispatched
                   /\ processed' = processed
                   /\ stdout' = stdout
                   /\ transcript' = transcript]_vars

\* C15 witness: after a segment was dispatched, a whole poll cycle over an
\* unchanged directory that still holds an unprocessed file has run.
PollIdempotentWitness ==
    /\ stale
    /\ pc = "poll"
    /\ dispatched /= << >>
    /\ DOMAIN dir \ processed /= {}

\* C16: the order in which a listing returns the new files is the ascending
\* order of their sequence indices, also for indices wider than the pad.
ListingInIndexOrder ==
    \A i, j \in DOMAIN queue : i < j => IndexOf(queue[i]) < IndexOf(queue[j])

\* The names the capture process can give its files in a session that starts
\* at segment 0.
SegNames == {SegName(i) : i \in 0..(MaxSeg - 1)}

\* C17: processed only grows; a name is in it exactly when transcribe_file
\* has been called for it, so a file skipped as too small is not added; a
\* skipped file whose size has reached the threshold is dispatched later,
\* unless the session ends or is interrupted first; every name with a printed
\* line is in processed.
ProcessedGrowsWithDispatch ==
    /\ [][processed \subseteq processed']_vars
    /\ [][skipped' /= skipped => processed' = processed]_vars
    /\ [](processed = DispatchedNames)
    /\ [](PrintedNames \subseteq processed)
    /\ \A n \in SegNames :
          (n \in skipped /\ n \in DOMAIN dir /\ dir[n] >= MinBytes) ~>
              (n \in processed \/ pc \in {"done", "wait"})

\* C17 witness: a file that a for loop skipped as too small has since been
\* dispatched by a poll, and its line printed.
ProcessedGrowsWithDispatchWitness ==
    \E k \in DOMAIN dispatched :
        /\ dispatched[k].name \in skipped
        /\ dispatched[k].phase = "poll"
        /\ dispatched[k].name \in PrintedNames
        /\ dispatched[k].name \in processed

====
